---- MODULE Spec2Model ----
(***************************************************************************)
(* Nova AI chatbot backend (backend/server2.js): the POST /api/chat        *)
(* pipeline.  A request passes the express.json body parser, then the      *)
(* async chat handler: validation of `message`, dynamic require of the     *)
(* provider module, credential check, one upstream completion call (the    *)
(* only await), extraction of the reply, and the catch block that maps     *)
(* every exception of the handler to a status and an error body.           *)
(*                                                                         *)
(* JavaScript runs each callback to completion, so the handler up to its   *)
(* await is one action and its continuation after the await is another.    *)
(* The rate limiter, helmet and cors middleware answer before the pipeline *)
(* is entered and are not part of this model: a request here is one the    *)
(* limiter has admitted.                                                   *)
(***************************************************************************)
EXTENDS Integers, Sequences, FiniteSets, TLC

\* ------------------------------------------------------------------ bounds
NumRequests == 2

Requests == 1..NumRequests

\* ------------------------------------------------------------ JSON values
\* A JavaScript value as the handler sees it: its typeof-level kind and text.
Undefined == [kind |-> "undefined", text |-> ""]
Null == [kind |-> "null", text |-> ""]
Str(s) == [kind |-> "string", text |-> s]
Num(s) == [kind |-> "number", text |-> s]
Bool(s) == [kind |-> "boolean", text |-> s]
Obj(s) == [kind |-> "object", text |-> s]

\* typeof v
TypeOf(v) ==
  CASE v.kind = "null" -> "object"
    [] v.kind = "array" -> "object"
    [] OTHER -> v.kind

\* !v : the falsy values JSON can carry
Falsy(v) ==
  \/ v.kind \in {"undefined", "null"}
  \/ v.kind = "string" /\ v.text = ""
  \/ v.kind = "number" /\ v.text = "0"
  \/ v.kind = "boolean" /\ v.text = "false"

\* ------------------------------------------------------------ input sets
MessageTexts == {"", " ", "Hello"}

MessageValues ==
  {Undefined, Null, Num("0"), Num("42"), Bool("false"), Bool("true"),
   Obj("{}"), [kind |-> "array", text |-> "[Hello]"]}
  \cup {Str(s) : s \in MessageTexts}

\* What express.json leaves in req.body: a parsed object, or a parse failure
\* that is passed to next(err).
Bodies ==
  {[parsed |-> FALSE, message |-> Undefined]}
  \cup {[parsed |-> TRUE, message |-> v] : v \in MessageValues}

NoBody == [parsed |-> FALSE, message |-> Undefined]

ApiKeys == {"", "sk-live-key"}

\* ---------------------------------------------------------- fixed strings
systemPrompt == "You are Nova AI Assistant, a helpful AI assistant for Nova AI Solutions"
fallbackResponse == "I'm currently unavailable. Please contact our support team directly for assistance with AI, IoT, or Solar solutions."
maintenanceResponse == "I'm currently in maintenance mode. Please contact our support team directly for assistance with AI, IoT, or Solar solutions."
InvalidMessageError == "Message is required and must be a string"
QuotaError == "Service temporarily unavailable. Please try again later."
ConfigError == "Service configuration error. Please contact support."
GenericError == "An error occurred while processing your request. Please try again."
InternalError == "Internal server error"
MaxTokens == 500

\* --------------------------------------------------------- upstream side
\* An exception value: error.code, error.message, error.stack.
Err(code, msg) == [code |-> code, message |-> msg, stack |-> "Error: " \o msg \o " at /app/backend/server.js"]

ErrorCodes == {"insufficient_quota", "invalid_api_key", "rate_limit_exceeded", "undefined"}
ErrorMessages ==
  {"You exceeded your current quota: insufficient_quota",
   "Incorrect API key provided: sk-live-key"}
UpstreamErrors == {Err(c, m) : c \in ErrorCodes, m \in ErrorMessages}

\* message.content of one completion choice: a text, null, or no such property
Contents == {Str("Hi there!"), Str("Second choice"), Null, Undefined}

\* completion.choices of a resolved call: the empty (malformed) list, one choice
\* of each content, and lists of two choices
ChoiceLists ==
  {<<>>} \cup {<<c>> : c \in Contents}
  \cup {<<Str("Hi there!"), Str("Second choice")>>, <<Null, Str("Hi there!")>>,
        <<Undefined, Str("Second choice")>>}

TypeErrorNoMessage == Err("undefined", "Cannot read properties of undefined (reading 'message')")

NoOutcome == [kind |-> "none", choices |-> <<>>, error |-> Err("undefined", "")]
Resolved(choices) == [kind |-> "resolved", choices |-> choices, error |-> Err("undefined", "")]
Rejected(e) == [kind |-> "rejected", choices |-> <<>>, error |-> e]

\* ------------------------------------------------------------------ state
VARIABLES
  moduleInstalled,  \* whether require('openai') succeeds in this process
  apiKey,           \* process.env.OPENAI_API_KEY, "" when not configured
  pc,               \* per request: "idle", "awaiting" (suspended at the await), "done"
  reqBody,          \* per request: what the body parser produced
  calls,            \* per request: the parameters of each completions.create call issued
  outcome,          \* per request: how its upstream call settled
  sent              \* per request: the responses written, in order

vars == <<moduleInstalled, apiKey, pc, reqBody, calls, outcome, sent>>

\* ------------------------------------------------------------- responses
\* res.json(obj): JSON.stringify leaves out the properties whose value is undefined
ResJson(obj) == [f \in {g \in DOMAIN obj : obj[g].kind # "undefined"} |-> obj[f]]

\* res.status(status).json(obj)
Reply(status, obj) == [status |-> status, body |-> ResJson(obj)]

\* mutant: the emptiness test alone, without the typeof test
GateRejects_NoTypeCheck(message) == Falsy(message)

\* mutant: a string is also rejected when nothing is left of it after trimming
GateRejects_Trimmed(message) ==
  Falsy(message) \/ TypeOf(message) # "string" \/ message.text = " "

\* if (!message || typeof message !== 'string')
GateRejects(message) == Falsy(message) \/ TypeOf(message) # "string"

\* mutant: the user message is trimmed before it is sent upstream
CreateParams_Trimmed(message) ==
  [model |-> "gpt-3.5-turbo",
   messages |-> << [role |-> "system", content |-> Str(systemPrompt)],
                   [role |-> "user",
                    content |-> IF message.text = " " THEN Str("") ELSE message] >>,
   max_tokens |-> MaxTokens,
   temperature |-> "0.7"]

\* the argument of openai.chat.completions.create
CreateParams(message) ==
  [model |-> "gpt-3.5-turbo",
   messages |-> << [role |-> "system", content |-> Str(systemPrompt)],
                   [role |-> "user", content |-> message] >>,
   max_tokens |-> MaxTokens,
   temperature |-> "0.7"]

\* completion.choices[0].message.content: throws a TypeError when choices[0]
\* is undefined
ExtractReply(choices) ==
  IF Len(choices) = 0
    THEN [threw |-> TRUE, error |-> TypeErrorNoMessage, value |-> Undefined]
    ELSE [threw |-> FALSE, error |-> TypeErrorNoMessage, value |-> choices[1]]

\* app.use((error, req, res, next) => ...): the Express error handler
ErrorHandler(error) == Reply(500, [error |-> Str(InternalError)])

\* mutant: the quota case is recognised by the text of the error message
CatchBlock_ByMessage(error) ==
  IF error.message = "You exceeded your current quota: insufficient_quota"
    THEN Reply(503, [error |-> Str(QuotaError)])
  ELSE IF error.code = "invalid_api_key" THEN Reply(500, [error |-> Str(ConfigError)])
  ELSE Reply(500, [error |-> Str(GenericError)])

\* mutant: the generic branch reports the exception's own message
CatchBlock_LeakMessage(error) ==
  IF error.code = "insufficient_quota" THEN Reply(503, [error |-> Str(QuotaError)])
  ELSE IF error.code = "invalid_api_key" THEN Reply(500, [error |-> Str(ConfigError)])
  ELSE Reply(500, [error |-> Str(error.message)])

\* mutant: the catch block hands every exception on with next(error)
CatchBlock_Next(error) == ErrorHandler(error)

\* catch (error) { ... } of the chat handler
CatchBlock(error) ==
  IF error.code = "insufficient_quota" THEN Reply(503, [error |-> Str(QuotaError)])
  ELSE IF error.code = "invalid_api_key" THEN Reply(500, [error |-> Str(ConfigError)])
  ELSE Reply(500, [error |-> Str(GenericError)])

\* mutant: the degraded modes answer with an error status
FallbackReply_AsError(reason) ==
  Reply(503, [error |-> Str(IF reason = "module-missing" THEN fallbackResponse
                                                         ELSE maintenanceResponse)])

\* the two fixed replies returned while the provider cannot be used
FallbackReply(reason) ==
  IF reason = "module-missing"
    THEN Reply(200, [response |-> Str(fallbackResponse)])
    ELSE Reply(200, [response |-> Str(maintenanceResponse)])

\* --------------------------------------------------------------- actions
Init ==
  /\ moduleInstalled \in BOOLEAN
  /\ apiKey \in ApiKeys
  /\ pc = [r \in Requests |-> "idle"]
  /\ reqBody = [r \in Requests |-> NoBody]
  /\ calls = [r \in Requests |-> <<>>]
  /\ outcome = [r \in Requests |-> NoOutcome]
  /\ sent = [r \in Requests |-> <<>>]

\* write one response for r and end the request
Respond(r, reply) ==
  /\ sent' = [sent EXCEPT ![r] = Append(@, reply)]
  /\ pc' = [pc EXCEPT ![r] = "done"]

\* the chat handler from its entry to its first await (or to its early return)
ChatHandler(r, message) ==
  IF GateRejects(message)
    THEN Respond(r, Reply(400, [error |-> Str(InvalidMessageError)])) /\ UNCHANGED calls
  ELSE IF ~moduleInstalled
    THEN Respond(r, FallbackReply("module-missing")) /\ UNCHANGED calls
  ELSE IF apiKey = ""
    THEN Respond(r, FallbackReply("no-credential")) /\ UNCHANGED calls
  ELSE /\ calls' = [calls EXCEPT ![r] = Append(@, CreateParams(message))]
       /\ pc' = [pc EXCEPT ![r] = "awaiting"]
       /\ UNCHANGED sent

\* a POST /api/chat request arrives: express.json parses the body and either
\* hands a parse error to the error handler or runs the chat handler
Request(r, body) ==
  /\ pc[r] = "idle"
  /\ reqBody' = [reqBody EXCEPT ![r] = body]
  /\ IF body.parsed
       THEN ChatHandler(r, body.message)
       ELSE Respond(r, ErrorHandler(Err("undefined", "Unexpected token in JSON"))) /\ UNCHANGED calls
  /\ UNCHANGED <<moduleInstalled, apiKey, outcome>>

\* mutant: a reply already sent for the same message is served again
CompletionResolved_Cached(r, choices) ==
  /\ pc[r] = "awaiting"
  /\ outcome' = [outcome EXCEPT ![r] = Resolved(choices)]
  /\ LET x == ExtractReply(choices)
         hits == {q \in Requests \ {r} :
                    /\ pc[q] = "done" /\ reqBody[q] = reqBody[r]
                    /\ outcome[q].kind = "resolved" /\ sent[q][1].status = 200}
     IN
       IF hits # {}
         THEN Respond(r, sent[CHOOSE q \in hits : TRUE][1])
       ELSE IF x.threw
         THEN Respond(r, CatchBlock(x.error))
         ELSE Respond(r, Reply(200, [response |-> x.value]))
  /\ UNCHANGED <<moduleInstalled, apiKey, reqBody, calls>>

\* the awaited call resolves: the handler extracts the reply and sends it, or
\* the extraction throws into the catch block
CompletionResolved(r, choices) ==
  /\ pc[r] = "awaiting"
  /\ outcome' = [outcome EXCEPT ![r] = Resolved(choices)]
  /\ LET x == ExtractReply(choices) IN
       IF x.threw
         THEN Respond(r, CatchBlock(x.error))
         ELSE Respond(r, Reply(200, [response |-> x.value]))
  /\ UNCHANGED <<moduleInstalled, apiKey, reqBody, calls>>

\* mutant: a rejected call is issued once more before the request is answered
CompletionRejected_Retry(r, error) ==
  /\ pc[r] = "awaiting"
  /\ outcome' = [outcome EXCEPT ![r] = Rejected(error)]
  /\ IF Len(calls[r]) < 2
       THEN /\ calls' = [calls EXCEPT ![r] = Append(@, calls[r][1])]
            /\ UNCHANGED <<pc, sent>>
       ELSE Respond(r, CatchBlock(error)) /\ UNCHANGED calls
  /\ UNCHANGED <<moduleInstalled, apiKey, reqBody>>

\* the awaited call rejects: the catch block answers
CompletionRejected(r, error) ==
  /\ pc[r] = "awaiting"
  /\ outcome' = [outcome EXCEPT ![r] = Rejected(error)]
  /\ Respond(r, CatchBlock(error))
  /\ UNCHANGED <<moduleInstalled, apiKey, reqBody, calls>>

Next ==
  \E r \in Requests :
    \/ \E body \in Bodies : Request(r, body)
    \/ \E choices \in ChoiceLists : CompletionResolved(r, choices)
    \/ \E error \in UpstreamErrors : CompletionRejected(r, error)

Spec == Init /\ [][Next]_vars

TypeOK ==
  /\ moduleInstalled \in BOOLEAN
  /\ apiKey \in ApiKeys
  /\ pc \in [Requests -> {"idle", "awaiting", "done"}]
  /\ \A r \in Requests : reqBody[r] \in Bodies /\ Len(sent[r]) <= 1

\* ------------------------------------------------------- claim vocabulary
Arrived(r) == pc[r] # "idle"
Done(r) == pc[r] = "done"
Message(r) == reqBody[r].message
Available == moduleInstalled /\ apiKey # ""
NonEmptyString(v) == v.kind = "string" /\ v.text # ""
ErrorBody(text) == [error |-> [kind |-> "string", text |-> text]]
ResponseBody(text) == [response |-> [kind |-> "string", text |-> text]]
EnvelopeFields(body) == DOMAIN body \cap {"response", "error"}

C2_Original ==
  \A r \in Requests :
    (Done(r) /\ ~Available)
      => /\ Len(sent[r]) = 1
         /\ sent[r][1].status = 200
         /\ EnvelopeFields(sent[r][1].body) = {"response"}
         /\ calls[r] = <<>>

\* C2 amended: whenever the provider is unavailable, every request whose
\* message passed the gate (a non-empty string) is answered with 200 and a body
\* holding `response` and no `error`, without an upstream call.
C2_FallbackIsSuccess ==
  \A r \in Requests :
    (Done(r) /\ ~Available /\ reqBody[r].parsed /\ NonEmptyString(Message(r)))
      => /\ Len(sent[r]) = 1
         /\ sent[r][1].status = 200
         /\ EnvelopeFields(sent[r][1].body) = {"response"}
         /\ sent[r][1].body.response.kind = "string"
         /\ calls[r] = <<>>

C2_Witness ==
  \E r \in Requests :
    /\ moduleInstalled /\ apiKey = "" /\ Done(r)
    /\ reqBody[r].parsed /\ Message(r) = [kind |-> "string", text |-> "Hello"]

\* C3: when the upstream call resolves and its first completion carries the
\* text t, the request is answered with 200 and exactly {response: t}, and the
\* one call made carried the system prompt followed by the user's message,
\* unmodified.
C3_RelaySuccess ==
  \A r \in Requests :
    (/\ Done(r) /\ outcome[r].kind = "resolved"
     /\ Len(outcome[r].choices) > 0 /\ outcome[r].choices[1].kind = "string")
      => /\ sent[r] = << [status |-> 200,
                          body |-> ResponseBody(outcome[r].choices[1].text)] >>
         /\ Len(calls[r]) = 1
         /\ calls[r][1].messages =
              << [role |-> "system",
                  content |-> [kind |-> "string", text |-> systemPrompt]],
                 [role |-> "user", content |-> Message(r)] >>

C3_Witness ==
  \E r \in Requests :
    /\ Done(r) /\ Message(r).text = " "
    /\ outcome[r].kind = "resolved" /\ Len(outcome[r].choices) = 2
    /\ outcome[r].choices[1] = [kind |-> "string", text |-> "Hi there!"]

\* C4: when the upstream call rejects with code insufficient_quota, the
\* request is answered with 503 and the fixed quota error, whatever the text of
\* the upstream error's message.
C4_QuotaIs503 ==
  \A r \in Requests :
    (Done(r) /\ outcome[r].kind = "rejected"
       /\ outcome[r].error.code = "insufficient_quota")
      => sent[r] = << [status |-> 503, body |-> ErrorBody(QuotaError)] >>

C4_Witness ==
  \E r \in Requests :
    /\ Done(r) /\ outcome[r].kind = "rejected"
    /\ outcome[r].error.code = "insufficient_quota"
    /\ outcome[r].error.message = "Incorrect API key provided: sk-live-key"

\* C5: when the upstream call rejects with a code that is neither the quota
\* nor the invalid-key code, the request is answered with 500 and the generic
\* processing error, and no string of the body is the error's message, its
\* stack trace or the credential.
C5_OtherErrorIsGeneric500 ==
  \A r \in Requests :
    (Done(r) /\ outcome[r].kind = "rejected"
       /\ outcome[r].error.code \notin {"insufficient_quota", "invalid_api_key"})
      => /\ sent[r] = << [status |-> 500, body |-> ErrorBody(GenericError)] >>
         /\ \A f \in DOMAIN sent[r][1].body :
              sent[r][1].body[f].text
                \notin {outcome[r].error.message, outcome[r].error.stack, apiKey}

C5_Witness ==
  \E r \in Requests :
    /\ Done(r) /\ outcome[r].kind = "rejected"
    /\ outcome[r].error.code = "undefined"
    /\ outcome[r].error.message = "You exceeded your current quota: insufficient_quota"

\* C6: every response body written for a request holds exactly one of the
\* fields `response` and `error`.
C6_ExactlyOneField ==
  \A r \in Requests :
    \A i \in 1..Len(sent[r]) : Cardinality(EnvelopeFields(sent[r][i].body)) = 1

\* C7 as stated: an exception that is not an upstream failure (the body parser
\* failing, the reply missing from a malformed upstream result) is answered
\* with 500 and "Internal server error".
C7_Original ==
  \A r \in Requests :
    (Done(r) /\ (~reqBody[r].parsed
                 \/ (outcome[r].kind = "resolved" /\ Len(outcome[r].choices) = 0)))
      => sent[r] = << [status |-> 500, body |-> ErrorBody(InternalError)] >>

\* C7 amended: an exception raised before the chat handler runs (the body
\* parser failing) is answered by the Express error handler with 500 and
\* "Internal server error"; an exception raised inside the chat handler that is
\* not an upstream failure (the reply missing from a malformed upstream
\* result) is answered by the handler's own catch block with 500 and the
\* generic processing error.
C7_HandlerCatchesItsOwn ==
  \A r \in Requests :
    /\ (Done(r) /\ ~reqBody[r].parsed)
         => sent[r] = << [status |-> 500, body |-> ErrorBody(InternalError)] >>
    /\ (Done(r) /\ outcome[r].kind = "resolved" /\ Len(outcome[r].choices) = 0)
         => sent[r] = << [status |-> 500, body |-> ErrorBody(GenericError)] >>

C7_Witness ==
  \E r, q \in Requests :
    /\ Done(r) /\ outcome[r].kind = "resolved" /\ Len(outcome[r].choices) = 0
    /\ Done(q) /\ ~reqBody[q].parsed

\* C8 as stated: a message that is the empty string or only whitespace is
\* not rejected with 400.
C8_Original ==
  \A r \in Requests :
    (Arrived(r) /\ reqBody[r].parsed /\ Message(r).kind = "string"
       /\ Message(r).text \in {"", " "})
      => \A i \in 1..Len(sent[r]) : sent[r][i].status # 400

\* C8 amended: a whitespace-only message is not rejected with 400 and goes on
\* to the availability check (a fallback reply, or the upstream call); the
\* empty string is rejected with 400 like a missing message.
C8_GateAcceptsWhitespaceOnly ==
  \A r \in Requests :
    /\ (Arrived(r) /\ reqBody[r].parsed
          /\ Message(r) = [kind |-> "string", text |-> " "])
         => /\ \A i \in 1..Len(sent[r]) : sent[r][i].status # 400
            /\ IF Available
                 THEN Len(calls[r]) = 1
                 ELSE Done(r) /\ sent[r][1].status = 200 /\ calls[r] = <<>>
    /\ (Arrived(r) /\ reqBody[r].parsed
          /\ Message(r) = [kind |-> "string", text |-> ""])
         => /\ sent[r] = << [status |-> 400, body |-> ErrorBody(InvalidMessageError)] >>
            /\ calls[r] = <<>>

C8_Witness ==
  \E r, q \in Requests :
    /\ Available
    /\ pc[r] = "awaiting" /\ Message(r) = [kind |-> "string", text |-> " "]
    /\ Done(q) /\ reqBody[q].parsed /\ Message(q) = [kind |-> "string", text |-> ""]

\* C9: a request makes exactly one upstream call when its message passed the
\* gate and the provider is available, and none otherwise; a call that failed
\* is not made again, so no request ever has more than one call.
C9_AtMostOneCall ==
  \A r \in Requests :
    /\ Len(calls[r]) <= 1
    /\ pc[r] = "idle" => calls[r] = <<>>
    /\ pc[r] = "awaiting" => Len(calls[r]) = 1
    /\ Done(r) =>
         Len(calls[r]) =
           IF reqBody[r].parsed /\ NonEmptyString(Message(r)) /\ Available
             THEN 1 ELSE 0
    /\ outcome[r].kind # "none" => (Done(r) /\ Len(calls[r]) = 1)

C9_Witness ==
  \E r, q \in Requests :
    /\ Done(r) /\ outcome[r].kind = "rejected" /\ Len(calls[r]) = 1
    /\ Done(q) /\ calls[q] = <<>>

\* The response the pipeline owes a request, from that request's own body, the
\* provider availability and that request's own upstream outcome.
C10_Owed(body, installed, key, out) ==
  IF ~body.parsed
    THEN [status |-> 500, body |-> ErrorBody(InternalError)]
  ELSE IF ~NonEmptyString(body.message)
    THEN [status |-> 400, body |-> ErrorBody(InvalidMessageError)]
  ELSE IF ~installed
    THEN [status |-> 200, body |-> ResponseBody(fallbackResponse)]
  ELSE IF key = ""
    THEN [status |-> 200, body |-> ResponseBody(maintenanceResponse)]
  ELSE IF out.kind = "rejected" /\ out.error.code = "insufficient_quota"
    THEN [status |-> 503, body |-> ErrorBody(QuotaError)]
  ELSE IF out.kind = "rejected" /\ out.error.code = "invalid_api_key"
    THEN [status |-> 500, body |-> ErrorBody(ConfigError)]
  ELSE IF out.kind = "rejected" \/ Len(out.choices) = 0
    THEN [status |-> 500, body |-> ErrorBody(GenericError)]
  ELSE IF out.choices[1].kind = "undefined"
    THEN [status |-> 200, body |-> << >>]
    ELSE [status |-> 200, body |-> [response |-> out.choices[1]]]

C10_OwnInputsOnly ==
  \A r \in Requests :
    /\ ~Done(r) => sent[r] = <<>>
    /\ Done(r) =>
         sent[r] = << C10_Owed(reqBody[r], moduleInstalled, apiKey, outcome[r]) >>

\* a step that writes a response for r is a step of r alone
C10_StepIsLocal ==
  \A r \in Requests :
    sent'[r] # sent[r] =>
      /\ ~Done(r) /\ pc'[r] = "done" /\ Len(sent'[r]) = 1
      /\ \A q \in Requests \ {r} :
           /\ pc'[q] = pc[q] /\ sent'[q] = sent[q] /\ calls'[q] = calls[q]
           /\ outcome'[q] = outcome[q] /\ reqBody'[q] = reqBody[q]

\* C10: with requests suspended at the upstream call and resumed in any order,
\* each request gets exactly one response, and that response is the one owed
\* to its own message, the provider availability and its own upstream outcome;
\* the step that answers one request changes nothing of another.
C10_RequestsIndependent == []C10_OwnInputsOnly /\ [][C10_StepIsLocal]_vars

C10_Witness ==
  \E r, q \in Requests :
    /\ r # q /\ Done(r) /\ Done(q) /\ reqBody[r] = reqBody[q]
    /\ outcome[r].kind = "resolved" /\ outcome[q].kind = "resolved"
    /\ outcome[r] # outcome[q] /\ sent[r] # sent[q]

====
